---- MODULE Spec2Model ----
(***************************************************************************)
(* Jupyter notebook <-> Markdown conversion (converter_logic.py) behind    *)
(* the MCP tool shim (mcp_server.py).                                      *)
(*                                                                         *)
(* Text is a sequence of one-character strings.  A notebook on disk is the *)
(* sequence of its cells, each a record [cell_type, source]; nbformat's    *)
(* JSON encoding keeps cell_type and source, and nothing else of a cell is *)
(* read by the converter.  Files are opened in text mode on a POSIX host:  *)
(* writing leaves "\n" and "\r" alone, reading turns "\r\n" and "\r" into  *)
(* "\n" (universal newlines).                                              *)
(***************************************************************************)
EXTENDS Integers, Sequences, FiniteSets

(***************************************************************************)
(* Characters and string primitives of Python used by the converter.      *)
(***************************************************************************)
UPPER == <<"A","B","C","D","E","F","G","H","I","J","K","L","M",
           "N","O","P","Q","R","S","T","U","V","W","X","Y","Z">>

LOWER == <<"a","b","c","d","e","f","g","h","i","j","k","l","m",
           "n","o","p","q","r","s","t","u","v","w","x","y","z">>

DIGITS == {"0","1","2","3","4","5","6","7","8","9"}

\* str.isspace / regex \s, for the characters the model uses
IsSpace(c) == c \in {" ", "\n", "\r", "\t"}

\* regex \w: letters, digits and the underscore
IsWord(c) ==
    \/ \E k \in 1..26 : c = UPPER[k] \/ c = LOWER[k]
    \/ c \in DIGITS
    \/ c = "_"

LowerChar(c) == IF \E k \in 1..26 : c = UPPER[k]
                THEN LOWER[CHOOSE k \in 1..26 : c = UPPER[k]]
                ELSE c

\* str.lower()
StrLower(s) == [k \in 1..Len(s) |-> LowerChar(s[k])]

SetMin(S) == CHOOSE x \in S : \A y \in S : x <= y

SetMax(S) == CHOOSE x \in S : \A y \in S : y <= x

\* `not s.strip()`
IsBlank(s) == \A k \in 1..Len(s) : IsSpace(s[k])

\* str.strip()
Strip(s) ==
    IF IsBlank(s) THEN <<>>
    ELSE LET solid == {k \in 1..Len(s) : ~IsSpace(s[k])}
         IN  SubSeq(s, SetMin(solid), SetMax(solid))

\* s[i:].startswith(sub), 1-based i
StartsAt(s, sub, i) ==
    /\ i >= 1
    /\ i + Len(sub) - 1 <= Len(s)
    /\ \A k \in 1..Len(sub) : s[i + k - 1] = sub[k]

\* s.find(sub, from): the first index >= from where sub starts, 0 when none
Find(s, sub, from) ==
    LET hits == {i \in from..(Len(s) - Len(sub) + 1) : StartsAt(s, sub, i)}
    IN  IF hits = {} THEN 0 ELSE SetMin(hits)

RECURSIVE SplitFrom(_, _, _)
SplitFrom(s, sep, from) ==
    LET i == Find(s, sep, from)
    IN  IF i = 0 THEN <<SubSeq(s, from, Len(s))>>
        ELSE <<SubSeq(s, from, i - 1)>> \o SplitFrom(s, sep, i + Len(sep))

\* s.split(sep)
Split(s, sep) == SplitFrom(s, sep, 1)

RECURSIVE Join(_, _)
\* sep.join(lines)
Join(lines, sep) ==
    IF lines = <<>> THEN <<>>
    ELSE IF Len(lines) = 1 THEN lines[1]
    ELSE lines[1] \o sep \o Join(Tail(lines), sep)

RECURSIVE ReadRange(_, _, _)
\* characters lo..hi of s as read in text mode: "\r\n" and a lone "\r" come
\* back as "\n"
ReadRange(s, lo, hi) ==
    IF lo > hi THEN <<>>
    ELSE IF lo = hi
         THEN IF s[lo] = "\r" THEN <<"\n">>
              ELSE IF s[lo] = "\n" /\ lo > 1 /\ s[lo - 1] = "\r" THEN <<>>
              ELSE <<s[lo]>>
         ELSE LET mid == (lo + hi) \div 2
              IN  ReadRange(s, lo, mid) \o ReadRange(s, mid + 1, hi)

\* what f.read() returns for a file opened with open(path, 'r')
UniversalNewlines(s) == ReadRange(s, 1, Len(s))

(***************************************************************************)
(* Literals of converter_logic.py.                                         *)
(***************************************************************************)
CELL_BOUNDARY ==
    <<"<","!","-","-"," ","N","O","T","E","B","O","O","K","_","C","E","L","L",
      "_","B","O","U","N","D","A","R","Y"," ","-","-",">">>

\* The backquote character U+0060.  SANY cannot lex a backquote inside a string
\* literal, so this one element of the alphabet is spelled out; it is a single
\* character of the text like every other element.
BACKTICK == "BACKTICK"

FENCE == <<BACKTICK, BACKTICK, BACKTICK>>

PYTHON == <<"p","y","t","h","o","n">>

FENCE_PYTHON == FENCE \o PYTHON

FENCE_CLOSE == <<"\n">> \o FENCE

LANGUAGE_COMMENT == <<"#"," ","L","a","n","g","u","a","g","e",":"," ">>

(***************************************************************************)
(* code_block_pattern (converter_logic.py line 120): three backquotes, an  *)
(* optional group of \w characters, \s*, a newline, a lazy body, a newline *)
(* and three backquotes, with re.DOTALL; matched as Python's backtracking  *)
(* matcher does.                                                           *)
(***************************************************************************)
RECURSIVE WordRun(_, _)
\* the length of the longest run of \w characters starting at p
WordRun(s, p) == IF p <= Len(s) /\ IsWord(s[p]) THEN 1 + WordRun(s, p + 1) ELSE 0

RECURSIVE SpaceRun(_, _)
\* the length of the longest run of \s characters starting at q
SpaceRun(s, q) == IF q <= Len(s) /\ IsSpace(s[q]) THEN 1 + SpaceRun(s, q + 1) ELSE 0

NoMatch == [found |-> FALSE]

\* The match starting at index st, if any.  (\w+)? is greedy and can give
\* nothing back (the next character would have to be "\n"); \s* is greedy and
\* gives back one character at a time until the character after it is "\n" and
\* a closing newline-and-fence follows; (.*?) is lazy and stops at the first one.
FenceMatchAt(s, st) ==
    IF ~StartsAt(s, FENCE, st) THEN NoMatch
    ELSE LET p  == st + 3
             w  == WordRun(s, p)
             q  == p + w
             k  == SpaceRun(s, q)
             js == {j \in 0..(k - 1) :
                       s[q + j] = "\n" /\ Find(s, FENCE_CLOSE, q + j + 1) # 0}
         IN  IF js = {} THEN NoMatch
             ELSE LET bs == q + SetMax(js) + 1
                      e  == Find(s, FENCE_CLOSE, bs)
                  IN  [found |-> TRUE,
                       start |-> st,
                       end   |-> e + 3,
                       group1 |-> SubSeq(s, p, q - 1),
                       group2 |-> SubSeq(s, bs, e - 1)]

RECURSIVE FindIter(_, _)
\* re.finditer(code_block_pattern, s, re.DOTALL), scanning from index pos
FindIter(s, pos) ==
    LET starts == {st \in pos..Len(s) : FenceMatchAt(s, st).found}
    IN  IF starts = {} THEN <<>>
        ELSE LET m == FenceMatchAt(s, SetMin(starts))
             IN  <<m>> \o FindIter(s, m.end + 1)

(***************************************************************************)
(* convert_md_to_ipynb, lines 113-184: from the text read to the cells of  *)
(* the new notebook and the counts returned.                               *)
(***************************************************************************)
\* new_markdown_cell that builds a cell of the wrong kind
new_markdown_cell_as_code(text) == [cell_type |-> "code", source |-> text]

\* nbformat.v4.new_markdown_cell(text)
new_markdown_cell(text) == [cell_type |-> "markdown", source |-> text]

\* nbformat.v4.new_code_cell(text)
new_code_cell(text) == [cell_type |-> "code", source |-> text]

\* language = match.group(1) or 'python'
MatchLanguage(m) == IF m.group1 = <<>> THEN PYTHON ELSE m.group1

\* CodeText with the comparison of line 151 inverted
CodeTextInverted(language, code) ==
    IF StrLower(language) = PYTHON
    THEN LANGUAGE_COMMENT \o language \o <<"\n">> \o code
    ELSE code

\* lines 151-152: the text stored for a code block
CodeText(language, code) ==
    IF StrLower(language) # PYTHON
    THEN LANGUAGE_COMMENT \o language \o <<"\n">> \o code
    ELSE code

\* lines 143-146: the markdown text before a code block
TextBefore(section, last_end, m) ==
    IF m.start - 1 > last_end
    THEN LET text == Strip(SubSeq(section, last_end + 1, m.start - 1))
         IN  IF text # <<>> THEN <<<<"markdown", text>>>> ELSE <<>>
    ELSE <<>>

\* lines 140, 149-153: the code cell of a code block
CodeOf(m) ==
    LET code == Strip(m.group2)
    IN  IF code # <<>> THEN <<<<"code", CodeText(MatchLanguage(m), code)>>>> ELSE <<>>

RECURSIVE ScanMatches(_, _, _, _)
\* lines 137-155: the loop over the matches; the loop's last_end and section_cells
ScanMatches(section, ms, last_end, section_cells) ==
    IF ms = <<>> THEN [last_end |-> last_end, section_cells |-> section_cells]
    ELSE LET m == Head(ms)
         IN  ScanMatches(section, Tail(ms), m.end,
                         section_cells \o TextBefore(section, last_end, m) \o CodeOf(m))

\* lines 157-161: the text after the last code block
TextAfter(section, last_end) ==
    IF last_end < Len(section)
    THEN LET text == Strip(SubSeq(section, last_end + 1, Len(section)))
         IN  IF text # <<>> THEN <<<<"markdown", text>>>> ELSE <<>>
    ELSE <<>>

\* lines 133-165: the (cell_type, text) pairs of one stripped, non-empty section
SectionCells(section) ==
    LET scan  == ScanMatches(section, FindIter(section, 1), 0, <<>>)
        found == scan.section_cells \o TextAfter(section, scan.last_end)
    IN  IF found = <<>> /\ section # <<>>
        THEN <<<<"markdown", section>>>>
        ELSE found

RECURSIVE CreateCells(_, _)
\* lines 167-174: append one cell per pair and count it under its kind
CreateCells(acc, section_cells) ==
    IF section_cells = <<>> THEN acc
    ELSE LET cell_type    == Head(section_cells)[1]
             content_text == Head(section_cells)[2]
             cell == IF cell_type = "markdown"
                     THEN new_markdown_cell(content_text)
                     ELSE new_code_cell(content_text)
         IN  CreateCells([cells |-> Append(acc.cells, cell),
                          cell_count |-> [acc.cell_count EXCEPT
                                            ![cell_type] = acc.cell_count[cell_type] + 1]],
                         Tail(section_cells))

RECURSIVE ParseSections(_, _)
\* lines 128-174: the loop over the sections
ParseSections(acc, content_sections) ==
    IF content_sections = <<>> THEN acc
    ELSE LET section == Strip(Head(content_sections))
         IN  IF section = <<>>
             THEN ParseSections(acc, Tail(content_sections))
             ELSE ParseSections(CreateCells(acc, SectionCells(section)),
                                Tail(content_sections))

\* Fallback of a parser without lines 176-184
FallbackNone(acc, content) == acc

\* lines 176-184: a notebook is never left without a cell
Fallback(acc, content) ==
    IF acc.cells # <<>> THEN acc
    ELSE IF Strip(content) # <<>>
         THEN [cells |-> <<new_markdown_cell(Strip(content))>>,
               cell_count |-> [acc.cell_count EXCEPT !["markdown"] = 1]]
         ELSE [cells |-> <<new_code_cell(<<>>)>>,
               cell_count |-> [acc.cell_count EXCEPT !["code"] = 1]]

\* lines 123-184: cells and cell_count for the text read
ParseMarkdown(content) ==
    Fallback(ParseSections([cells |-> <<>>, cell_count |-> [markdown |-> 0, code |-> 0]],
                           Split(content, CELL_BOUNDARY)),
             content)

(***************************************************************************)
(* convert_ipynb_to_md, lines 41-73: one pass of the loop over the cells,  *)
(* then the trailing trim and the join.                                    *)
(***************************************************************************)
\* NeedsBoundary of a serializer that writes no marker
NeedsBoundaryNever(cells, i) == FALSE

\* lines 46 and 62: whether the marker follows cell i (1-based)
NeedsBoundary(cells, i) ==
    /\ i < Len(cells)
    /\ \/ cells[i].cell_type = "markdown" /\ cells[i + 1].cell_type = "markdown"
       \/ cells[i].cell_type = "raw" /\ cells[i + 1].cell_type \in {"markdown", "raw"}

\* lines 53-56
CodeLines(source) == <<FENCE_PYTHON, source, FENCE, <<>>>>

\* lines 44-49 and 60-65
TextLines(cells, i) ==
    <<cells[i].source>>
    \o (IF NeedsBoundary(cells, i) THEN <<<<>>, CELL_BOUNDARY>> ELSE <<>>)
    \o <<<<>>>>

\* lines 42-66: what cell i appends to markdown_content
EmitCell(cells, i) ==
    IF cells[i].cell_type \notin {"markdown", "code", "raw"} \/ IsBlank(cells[i].source)
    THEN <<>>
    ELSE IF cells[i].cell_type = "code" THEN CodeLines(cells[i].source)
    ELSE TextLines(cells, i)

\* CountCell with the increment inside the "if cell.source.strip()" block
CountCellIfEmitted(cell_count, cells, i) ==
    IF cells[i].cell_type \in {"markdown", "code", "raw"} /\ ~IsBlank(cells[i].source)
    THEN [cell_count EXCEPT ![cells[i].cell_type] = cell_count[cells[i].cell_type] + 1]
    ELSE cell_count

\* lines 50, 57, 66: cell_count after cell i
CountCell(cell_count, cells, i) ==
    IF cells[i].cell_type \in {"markdown", "code", "raw"}
    THEN [cell_count EXCEPT ![cells[i].cell_type] = cell_count[cells[i].cell_type] + 1]
    ELSE cell_count

RECURSIVE PopTrailing(_)
\* lines 69-70
PopTrailing(markdown_content) ==
    IF markdown_content # <<>> /\ IsBlank(markdown_content[Len(markdown_content)])
    THEN PopTrailing(SubSeq(markdown_content, 1, Len(markdown_content) - 1))
    ELSE markdown_content

\* line 73: the text written
MarkdownText(markdown_content) == Join(PopTrailing(markdown_content), <<"\n">>)

\* sum(cell_count.values())
Total(cell_count) ==
    LET keys == DOMAIN cell_count
    IN  (IF "markdown" \in keys THEN cell_count["markdown"] ELSE 0)
      + (IF "code" \in keys THEN cell_count["code"] ELSE 0)
      + (IF "raw" \in keys THEN cell_count["raw"] ELSE 0)

(***************************************************************************)
(* Paths, files and the two entry points.                                  *)
(***************************************************************************)
IPYNB == <<".","i","p","y","n","b">>

MD == <<".","m","d">>

MARKDOWN == <<".","m","a","r","k","d","o","w","n">>

\* Path(dir) / f"{stem}{suffix}"
PathOf(dir, stem, suffix) == [dir |-> dir, stem |-> stem, suffix |-> suffix]

\* an argument that is absent (arguments.get returns None)
NoPath == PathOf("", "", <<>>)

NotebookFile(cells) == [kind |-> "notebook", cells |-> cells]

TextFile(text) == [kind |-> "text", text |-> text]

\* SuffixOk of a converter without the checks of lines 24 and 101
SuffixOkAlways(name, source_path) == TRUE

\* lines 24 and 101: the extension the source must have
SuffixOk(name, source_path) ==
    IF name = "convert_notebook"
    THEN StrLower(source_path.suffix) = IPYNB
    ELSE StrLower(source_path.suffix) \in {MD, MARKDOWN}

\* OutputFile that does not use the source's stem
OutputFileFixedStem(name, source_path, output_dir) ==
    PathOf(output_dir, "output", IF name = "convert_notebook" THEN MD ELSE IPYNB)

\* lines 28 and 105
OutputFile(name, source_path, output_dir) ==
    PathOf(output_dir, source_path.stem,
           IF name = "convert_notebook" THEN MD ELSE IPYNB)

ErrorResult(message) == [status |-> "error", message |-> message]

\* lines 76-81 and 193-198
SuccessResult(output_file, cell_count) ==
    [status |-> "success",
     output_path |-> output_file,
     cell_count |-> cell_count,
     total_cells |-> Total(cell_count)]

Callers == {1, 2}

VARIABLES
    fs,         \* the files that exist: path -> NotebookFile or TextFile
    dirs,       \* the directories that exist
    requests,   \* per caller, the tool calls it makes, in order
    call,       \* per caller, the call in progress: its position and its locals
    responses   \* per caller, the results returned to it so far

vars == <<fs, dirs, requests, call, responses>>

IdleCall ==
    [pc |-> "idle", name |-> "", source_path |-> NoPath, output_dir |-> "",
     output_file |-> NoPath, notebook |-> <<>>, content |-> <<>>, i |-> 0,
     markdown_content |-> <<>>, cell_count |-> [markdown |-> 0, code |-> 0],
     cells |-> <<>>, result |-> ErrorResult("")]

Exists(path) == path \in DOMAIN fs

\* open(path, 'w') and the write
WriteFile(path, file) ==
    [q \in DOMAIN fs \cup {path} |-> IF q = path THEN file ELSE fs[q]]

Fail(c, message) ==
    call' = [call EXCEPT ![c].pc = "respond", ![c].result = ErrorResult(message)]

\* mcp_server.call_tool, lines 66-78: take the next request and dispatch it
CallTool(c) ==
    /\ call[c].pc = "idle"
    /\ Len(responses[c]) < Len(requests[c])
    /\ LET r == requests[c][Len(responses[c]) + 1]
           started == [IdleCall EXCEPT !.name = r.name,
                                       !.source_path = r.source_path,
                                       !.output_dir = r.output_dir]
       IN  call' = [call EXCEPT ![c] =
                IF r.source_path = NoPath \/ r.output_dir = ""
                THEN [started EXCEPT !.pc = "respond",
                         !.result = ErrorResult("source_path and output_dir are required")]
                ELSE IF r.name \notin {"convert_notebook", "convert_markdown"}
                THEN [started EXCEPT !.pc = "respond",
                         !.result = ErrorResult("Unknown tool name")]
                ELSE [started EXCEPT !.pc = "validate"]]
    /\ UNCHANGED <<fs, dirs, requests, responses>>

\* lines 17-25 and 94-102
Validate(c) ==
    /\ call[c].pc = "validate"
    /\ IF ~Exists(call[c].source_path)
       THEN Fail(c, "Source file not found")
       ELSE IF ~SuffixOk(call[c].name, call[c].source_path)
       THEN Fail(c, "Source file must have the expected extension")
       ELSE call' = [call EXCEPT ![c].pc = "mkdir"]
    /\ UNCHANGED <<fs, dirs, requests, responses>>

\* lines 27-28 and 104-105
MakeOutputDir(c) ==
    /\ call[c].pc = "mkdir"
    /\ dirs' = dirs \cup {call[c].output_dir}
    /\ call' = [call EXCEPT
                  ![c].pc = "read",
                  ![c].output_file = OutputFile(call[c].name, call[c].source_path,
                                                call[c].output_dir)]
    /\ UNCHANGED <<fs, requests, responses>>

\* lines 32-36
ReadNotebook(c) ==
    /\ call[c].pc = "read"
    /\ call[c].name = "convert_notebook"
    /\ IF ~Exists(call[c].source_path)
       THEN Fail(c, "No such file")
       ELSE IF fs[call[c].source_path].kind # "notebook"
       THEN Fail(c, "Notebook does not appear to be JSON")
       ELSE call' = [call EXCEPT
                       ![c].pc = "walk",
                       ![c].notebook = fs[call[c].source_path].cells,
                       ![c].i = 1,
                       ![c].markdown_content = <<>>,
                       ![c].cell_count = [markdown |-> 0, code |-> 0, raw |-> 0]]
    /\ UNCHANGED <<fs, dirs, requests, responses>>

\* lines 41-66: one iteration of the loop over notebook.cells
WalkCell(c) ==
    /\ call[c].pc = "walk"
    /\ call[c].i <= Len(call[c].notebook)
    /\ call' = [call EXCEPT
                  ![c].markdown_content = @ \o EmitCell(call[c].notebook, call[c].i),
                  ![c].cell_count = CountCell(@, call[c].notebook, call[c].i),
                  ![c].i = @ + 1]
    /\ UNCHANGED <<fs, dirs, requests, responses>>

\* lines 68-81
WriteMarkdown(c) ==
    /\ call[c].pc = "walk"
    /\ call[c].i > Len(call[c].notebook)
    /\ fs' = WriteFile(call[c].output_file, TextFile(MarkdownText(call[c].markdown_content)))
    /\ call' = [call EXCEPT
                  ![c].pc = "respond",
                  ![c].result = SuccessResult(call[c].output_file, call[c].cell_count)]
    /\ UNCHANGED <<dirs, requests, responses>>

\* lines 110-111
ReadMarkdown(c) ==
    /\ call[c].pc = "read"
    /\ call[c].name = "convert_markdown"
    /\ IF ~Exists(call[c].source_path)
       THEN Fail(c, "No such file")
       ELSE IF fs[call[c].source_path].kind # "text"
       THEN Fail(c, "cannot decode")
       ELSE call' = [call EXCEPT
                       ![c].pc = "parse",
                       ![c].content = UniversalNewlines(fs[call[c].source_path].text)]
    /\ UNCHANGED <<fs, dirs, requests, responses>>

\* lines 113-186
ParseContent(c) ==
    /\ call[c].pc = "parse"
    /\ LET parsed == ParseMarkdown(call[c].content)
       IN  call' = [call EXCEPT
                      ![c].pc = "save",
                      ![c].cells = parsed.cells,
                      ![c].cell_count = parsed.cell_count]
    /\ UNCHANGED <<fs, dirs, requests, responses>>

\* lines 188-198
WriteNotebook(c) ==
    /\ call[c].pc = "save"
    /\ fs' = WriteFile(call[c].output_file, NotebookFile(call[c].cells))
    /\ call' = [call EXCEPT
                  ![c].pc = "respond",
                  ![c].result = SuccessResult(call[c].output_file, call[c].cell_count)]
    /\ UNCHANGED <<dirs, requests, responses>>

\* mcp_server.call_tool, lines 81 and 83-85: the result goes back to the caller
Respond(c) ==
    /\ call[c].pc = "respond"
    /\ responses' = [responses EXCEPT ![c] = Append(@, call[c].result)]
    /\ call' = [call EXCEPT ![c].pc = "idle"]
    /\ UNCHANGED <<fs, dirs, requests>>

Next ==
    \E c \in Callers :
        \/ CallTool(c)
        \/ Validate(c)
        \/ MakeOutputDir(c)
        \/ ReadNotebook(c)
        \/ WalkCell(c)
        \/ WriteMarkdown(c)
        \/ ReadMarkdown(c)
        \/ ParseContent(c)
        \/ WriteNotebook(c)
        \/ Respond(c)

(***************************************************************************)
(* Inputs.  Texts are built from pieces: single characters, the fence and  *)
(* the boundary marker.                                                    *)
(***************************************************************************)
MaxPieces == 3

MaxCells == 3

MaxBody == 2

Pieces == {<<"a">>, <<" ">>, <<"\n">>, <<"\r">>, FENCE, CELL_BOUNDARY}

RECURSIVE TextsOver(_, _)
\* the texts of at most n pieces
TextsOver(pieces, n) ==
    IF n = 0 THEN {<<>>}
    ELSE LET shorter == TextsOver(pieces, n - 1)
         IN  shorter \cup {t \o p : t \in shorter, p \in pieces}

LongTexts == TextsOver(Pieces, MaxPieces)

ShortTexts == {<<" ">>, <<"a">>, FENCE, CELL_BOUNDARY}

CellsOver(texts) == [cell_type : {"markdown", "code", "raw"}, source : texts]

RECURSIVE NotebooksOver(_, _)
\* the notebooks of at most n cells
NotebooksOver(cells, n) ==
    IF n = 0 THEN {<<>>}
    ELSE LET shorter == NotebooksOver(cells, n - 1)
         IN  shorter \cup {Append(nb, cell) : nb \in shorter, cell \in cells}

\* up to MaxCells cells with short texts, and single cells with long texts
Notebooks ==
    NotebooksOver(CellsOver(ShortTexts), MaxCells)
    \cup {<<cell>> : cell \in CellsOver(LongTexts)}

\* the parts of a document with one fenced block: text before, the language
\* tag, the body, text after
Tags == {<<>>, PYTHON, <<"P","y","t","h","o","n">>, <<"P","Y","T","H","O","N">>,
         <<"j","s">>, <<"c","+","+">>}

Bodies == {b \in TextsOver({<<"a">>, <<" ">>, <<"\n">>}, MaxBody) : ~IsBlank(b)}

DocParts == [pre : {<<>>, <<"a","\n">>}, tag : Tags, body : Bodies,
             post : {<<>>, <<"\n","a">>}]

FencedDoc(d) == d.pre \o FENCE \o d.tag \o <<"\n">> \o d.body \o FENCE_CLOSE \o d.post

MarkdownTexts == LongTexts \cup {FencedDoc(d) : d \in DocParts}

Request(name, source_path, output_dir) ==
    [name |-> name, source_path |-> source_path, output_dir |-> output_dir]

InitWith(files, reqs) ==
    /\ fs = files
    /\ dirs = {p.dir : p \in DOMAIN files}
    /\ requests = reqs
    /\ call = [c \in Callers |-> IdleCall]
    /\ responses = [c \in Callers |-> <<>>]

(***************************************************************************)
(* Spec: one caller converts a notebook to Markdown and the Markdown back. *)
(***************************************************************************)
SourceNotebook == PathOf("in", "a", IPYNB)

WrittenMarkdown == PathOf("out", "a", MD)

WrittenNotebook == PathOf("out", "a", IPYNB)

Init ==
    \E nb \in Notebooks :
        InitWith([p \in {SourceNotebook} |-> NotebookFile(nb)],
                 [c \in Callers |->
                    IF c = 1
                    THEN <<Request("convert_notebook", SourceNotebook, "out"),
                           Request("convert_markdown", WrittenMarkdown, "out")>>
                    ELSE <<>>])

Spec == Init /\ [][Next]_vars

(***************************************************************************)
(* SpecMd: one caller converts a Markdown text to a notebook and the       *)
(* notebook back.                                                          *)
(***************************************************************************)
SourceMarkdown == PathOf("in", "a", MD)

InitMd ==
    \E text \in MarkdownTexts :
        InitWith([p \in {SourceMarkdown} |-> TextFile(text)],
                 [c \in Callers |->
                    IF c = 1
                    THEN <<Request("convert_markdown", SourceMarkdown, "out"),
                           Request("convert_notebook", WrittenNotebook, "out")>>
                    ELSE <<>>])

SpecMd == InitMd /\ [][Next]_vars

(***************************************************************************)
(* SpecFs: two callers, one call each, on the files of one file system.    *)
(***************************************************************************)
TXT == <<".","t","x","t">>

SharedFiles ==
    LET nbA == <<new_markdown_cell(<<"A">>), new_markdown_cell(<<"B">>)>>
        nbB == <<new_code_cell(<<"x">>)>>
        nbC == <<new_code_cell(<<"y">>), new_markdown_cell(<<"C">>)>>
    IN  [p \in {PathOf("in", "a", IPYNB), PathOf("alt", "a", IPYNB),
                PathOf("in", "b", <<".","I","P","Y","N","B">>),
                PathOf("in", "a", MD), PathOf("in", "b", MARKDOWN),
                PathOf("in", "a", TXT)} |->
            IF p = PathOf("in", "a", IPYNB) THEN NotebookFile(nbA)
            ELSE IF p = PathOf("alt", "a", IPYNB) THEN NotebookFile(nbB)
            ELSE IF p.suffix = <<".","I","P","Y","N","B">> THEN NotebookFile(nbC)
            ELSE IF p.suffix = MD THEN TextFile(<<"t">> \o FENCE_CLOSE)
            ELSE IF p.suffix = MARKDOWN THEN TextFile(FENCE \o <<"\n","z">> \o FENCE_CLOSE)
            ELSE TextFile(<<"n","o","t","e">>)]

SharedRequests ==
    [name : {"convert_notebook", "convert_markdown"},
     source_path : DOMAIN SharedFiles \cup {PathOf("in", "missing", IPYNB)},
     output_dir : {"in", "out"}]
    \cup {Request("convert_html", PathOf("in", "a", IPYNB), "out"),
          Request("convert_notebook", NoPath, "out"),
          Request("convert_markdown", PathOf("in", "a", MD), "")}

InitFs ==
    \E r1 \in SharedRequests, r2 \in SharedRequests :
        InitWith(SharedFiles, [c \in Callers |-> IF c = 1 THEN <<r1>> ELSE <<r2>>])

SpecFs == InitFs /\ [][Next]_vars

(***************************************************************************)
(* Properties.                                                             *)
(***************************************************************************)
Contains(s, sub) == Find(s, sub, 1) # 0

\* caller 1 made both of its calls and both succeeded
BothSucceeded ==
    /\ Len(responses[1]) = 2
    /\ responses[1][1].status = "success"
    /\ responses[1][2].status = "success"

\* the notebook converted, and the notebook that came back from its Markdown
Original == fs[SourceNotebook].cells

Back == fs[WrittenNotebook].cells

CodeOnly(nb) == \A k \in 1..Len(nb) : nb[k].cell_type = "code"

\* a text that comes back as it went: not blank, nothing to trim, no line that
\* starts with a fence, no marker, no carriage return
CleanCode(t) ==
    /\ ~IsBlank(t)
    /\ Strip(t) = t
    /\ ~Contains(t, FENCE_CLOSE)
    /\ ~Contains(t, CELL_BOUNDARY)
    /\ ~Contains(t, <<"\r">>)

\* C1 as stated: a notebook of Code cells only, with any cell texts, comes back
\* from convert_ipynb_to_md then convert_md_to_ipynb with the same cells, in
\* order, with identical text.
C1_RoundTripAnyCode ==
    (BothSucceeded /\ CodeOnly(Original)) => Back = Original

\* C1, amended: a notebook of one or more Code cells, each with a non-blank
\* text that has no leading or trailing whitespace, no newline followed by three
\* backquotes, no boundary marker and no carriage return, comes back from the
\* round trip with the same cells, in order, with identical text.
C1_RoundTripCleanCode ==
    (/\ BothSucceeded
     /\ CodeOnly(Original)
     /\ Original # <<>>
     /\ \A k \in 1..Len(Original) : CleanCode(Original[k].source))
    => Back = Original

C1_Witness ==
    /\ BothSucceeded
    /\ CodeOnly(Original)
    /\ Len(Original) >= 2
    /\ \A k \in 1..Len(Original) : CleanCode(Original[k].source)
    /\ \E k \in 1..Len(Original) : Contains(Original[k].source, FENCE)
    /\ Back = Original

EndsWith(s, tail) == Len(tail) <= Len(s) /\ StartsAt(s, tail, Len(s) - Len(tail) + 1)

\* cells k and k+1 are Markdown cells with non-blank text
MarkdownPair(nb, k) ==
    /\ k + 1 <= Len(nb)
    /\ nb[k].cell_type = "markdown" /\ ~IsBlank(nb[k].source)
    /\ nb[k + 1].cell_type = "markdown" /\ ~IsBlank(nb[k + 1].source)

\* the text written has the marker line between the two texts, and the notebook
\* read back has two adjacent Markdown cells, the first ending with the first
\* text trimmed and the second starting with the second text trimmed
KeptApart(nb, k) ==
    /\ Contains(fs[WrittenMarkdown].text,
                nb[k].source \o <<"\n","\n">> \o CELL_BOUNDARY \o <<"\n","\n">>
                \o nb[k + 1].source)
    /\ \E j \in 1..(Len(Back) - 1) :
          /\ Back[j].cell_type = "markdown"
          /\ Back[j + 1].cell_type = "markdown"
          /\ EndsWith(Back[j].source, Strip(nb[k].source))
          /\ StartsAt(Back[j + 1].source, Strip(nb[k + 1].source), 1)

\* no cell text has three backquotes in a row, the marker or a carriage return
PlainNotebook(nb) ==
    \A k \in 1..Len(nb) :
        /\ ~Contains(nb[k].source, FENCE)
        /\ ~Contains(nb[k].source, CELL_BOUNDARY)
        /\ ~Contains(nb[k].source, <<"\r">>)

Serialized == Len(responses[1]) >= 1 /\ responses[1][1].status = "success"

CountOf(nb, kind) == Cardinality({k \in 1..Len(nb) : nb[k].cell_type = kind})

\* a pass of the loop over a cell with blank text appends nothing
BlankCellStep ==
    \A c \in Callers :
        (/\ call[c].pc = "walk"
         /\ call[c].i <= Len(call[c].notebook)
         /\ call'[c].i = call[c].i + 1
         /\ IsBlank(call[c].notebook[call[c].i].source))
        => call'[c].markdown_content = call[c].markdown_content

\* the counts returned are the numbers of cells of each kind, blank or not
AllCellsCounted ==
    \A c \in Callers :
        (/\ call[c].name = "convert_notebook"
         /\ call[c].pc = "respond"
         /\ call[c].result.status = "success")
        => /\ \A kind \in {"markdown", "code", "raw"} :
                 call[c].result.cell_count[kind] = CountOf(call[c].notebook, kind)
           /\ call[c].result.total_cells = Len(call[c].notebook)

\* C5: in convert_ipynb_to_md a cell with empty or whitespace-only text adds
\* nothing to the output (no fence, no text, no marker), and the counts returned
\* are the numbers of cells of each kind and their total, whether or not a cell
\* emitted text.
C5_BlankSkippedButCounted == [][BlankCellStep]_vars /\ []AllCellsCounted

C5_Witness ==
    \E c \in Callers :
        /\ call[c].name = "convert_notebook"
        /\ call[c].pc = "respond"
        /\ call[c].result.status = "success"
        /\ Len(call[c].notebook) = 2
        /\ call[c].notebook[1].cell_type = "code"
        /\ IsBlank(call[c].notebook[1].source)
        /\ ~IsBlank(call[c].notebook[2].source)
        /\ call[c].result.cell_count["code"] >= 1
        /\ ~Contains(fs[call[c].output_file].text, FENCE)

WrittenLines == Split(fs[WrittenMarkdown].text, <<"\n">>)

\* the nearest non-blank line after line l, 0 when there is none
NextSolid(lines, l) ==
    LET later == {m \in (l + 1)..Len(lines) : ~IsBlank(lines[m])}
    IN  IF later = {} THEN 0 ELSE SetMin(later)

\* the nearest non-blank line before line l, 0 when there is none
PrevSolid(lines, l) ==
    LET earlier == {m \in 1..(l - 1) : ~IsBlank(lines[m])}
    IN  IF earlier = {} THEN 0 ELSE SetMax(earlier)

\* line l is between a fence-open and its fence-close
InsideFence(lines, l) ==
    Cardinality({m \in 1..(l - 1) : StartsAt(lines[m], FENCE, 1)}) % 2 = 1

\* C8: in the text written by convert_ipynb_to_md no marker line lies inside a
\* fenced block, and no marker line is the nearest non-blank line before a
\* fence-open or after a fence-close.  (Stated for notebooks whose cell texts
\* hold no fence and no marker of their own, so that every fence line and every
\* marker line of the text is one the serializer emitted.)
C8_NoMarkerAroundCode ==
    (Serialized /\ PlainNotebook(Original)) =>
        \A l \in 1..Len(WrittenLines) :
            WrittenLines[l] = CELL_BOUNDARY =>
                /\ ~InsideFence(WrittenLines, l)
                /\ LET n == NextSolid(WrittenLines, l)
                   IN  n = 0 \/ WrittenLines[n] # FENCE_PYTHON
                /\ LET m == PrevSolid(WrittenLines, l)
                   IN  m = 0 \/ WrittenLines[m] # FENCE

\* the last line of a text is empty or whitespace-only; one final newline ends
\* the line before it and does not count as a line of its own
EndsWithBlankLine(text) ==
    LET body  == IF EndsWith(text, <<"\n">>) THEN SubSeq(text, 1, Len(text) - 1) ELSE text
        lines == Split(body, <<"\n">>)
    IN  text # <<>> /\ IsBlank(lines[Len(lines)])

\* C9: the text written by convert_ipynb_to_md does not end with a blank line.
C9_NoTrailingBlankLine ==
    Serialized => ~EndsWithBlankLine(fs[WrittenMarkdown].text)

\* convert_md_to_ipynb has returned success to caller c; its locals are those of
\* that call until the caller's next call starts
Parsed(c) ==
    /\ call[c].name = "convert_markdown"
    /\ call[c].pc \in {"respond", "idle"}
    /\ call[c].result.status = "success"

\* the cells of the notebook file that call wrote
WrittenCells(c) == fs[call[c].result.output_path].cells

\* C3: a successful convert_md_to_ipynb writes at least one cell and total_cells
\* is the number of cells written; for an empty or whitespace-only input it
\* writes exactly one Code cell with empty text and total_cells is 1.
C3_NeverEmpty ==
    \A c \in Callers :
        Parsed(c) =>
            /\ Len(WrittenCells(c)) >= 1
            /\ call[c].result.total_cells = Len(WrittenCells(c))
            /\ IsBlank(call[c].content) =>
                  /\ WrittenCells(c) = <<new_code_cell(<<>>)>>
                  /\ call[c].result.total_cells = 1

C3_Witness ==
    \E c \in Callers :
        /\ Parsed(c)
        /\ call[c].content # <<>>
        /\ IsBlank(call[c].content)
        /\ WrittenCells(c) = <<[cell_type |-> "code", source |-> <<>>]>>
        /\ call[c].result.total_cells = 1

\* C4 as stated: an input text without three backquotes in a row yields exactly
\* one cell, a Markdown cell holding the whole text trimmed.
C4_NoFenceOneCell ==
    \A c \in Callers :
        (Parsed(c) /\ ~Contains(call[c].content, FENCE))
        => WrittenCells(c) = <<[cell_type |-> "markdown", source |-> Strip(call[c].content)]>>

\* C4, amended: an input text that is not blank and holds neither three
\* backquotes in a row nor the boundary marker yields exactly one cell, a
\* Markdown cell holding the whole text trimmed.
C4_PlainTextOneCell ==
    \A c \in Callers :
        (/\ Parsed(c)
         /\ ~Contains(call[c].content, FENCE)
         /\ ~IsBlank(call[c].content)
         /\ ~Contains(call[c].content, CELL_BOUNDARY))
        => WrittenCells(c) = <<[cell_type |-> "markdown", source |-> Strip(call[c].content)]>>

C4_Witness ==
    \E c \in Callers :
        /\ Parsed(c)
        /\ ~Contains(call[c].content, FENCE)
        /\ ~Contains(call[c].content, CELL_BOUNDARY)
        /\ ~IsBlank(call[c].content)
        /\ Strip(call[c].content) # call[c].content
        /\ WrittenCells(c) = <<[cell_type |-> "markdown", source |-> Strip(call[c].content)]>>

\* the cells a document with one fenced block should give: the text before,
\* one Code cell, the text after
ExpectedCells(d) ==
    (IF d.pre # <<>> THEN <<[cell_type |-> "markdown", source |-> Strip(d.pre)]>> ELSE <<>>)
    \o <<[cell_type |-> "code",
          source |-> IF d.tag # <<>> /\ StrLower(d.tag) # PYTHON
                     THEN LANGUAGE_COMMENT \o d.tag \o <<"\n">> \o Strip(d.body)
                     ELSE Strip(d.body)]>>
    \o (IF d.post # <<>> THEN <<[cell_type |-> "markdown", source |-> Strip(d.post)]>> ELSE <<>>)

\* C6: a fenced block with a non-blank body yields exactly one cell of kind
\* code; its text is the trimmed body, prefixed by the line "# Language: <tag>"
\* exactly when the fence carries a tag that is not "python" in any letter case.
C6_FencedBlockTagged ==
    \A c \in Callers :
        Parsed(c) =>
            \A d \in DocParts :
                call[c].content = FencedDoc(d) => WrittenCells(c) = ExpectedCells(d)

\* a call of convert_ipynb_to_md on a source that is not .ipynb, or of
\* convert_md_to_ipynb on a source that is neither .md nor .markdown
WrongKind(r) ==
    \/ r.name = "convert_notebook" /\ StrLower(r.source_path.suffix) # IPYNB
    \/ r.name = "convert_markdown" /\ StrLower(r.source_path.suffix) \notin {MD, MARKDOWN}

\* no step of a call on the wrong kind of file changes the file system
WrongKindStep ==
    \A c \in Callers :
        (call[c].pc # "idle" /\ WrongKind(call[c]) /\ call'[c] # call[c])
        => (fs' = fs /\ dirs' = dirs)

\* a call on the wrong kind of file returns an error with a message
WrongKindResult ==
    \A c \in Callers :
        \A k \in 1..Len(responses[c]) :
            WrongKind(requests[c][k]) =>
                /\ responses[c][k].status = "error"
                /\ responses[c][k].message # ""

\* C7: a call on a source of the wrong extension returns status "error" with a
\* message and leaves the file system unchanged: no file written, no directory
\* created.
C7_WrongKindRejected == [][WrongKindStep]_vars /\ []WrongKindResult

C7_Witness ==
    \E c \in Callers :
        /\ Len(responses[c]) = 1
        /\ requests[c][1].name = "convert_notebook"
        /\ requests[c][1].source_path = PathOf("in", "a", TXT)
        /\ requests[c][1].output_dir = "out"
        /\ responses[c][1].status = "error"
        /\ fs = SharedFiles
        /\ "out" \notin dirs

RECURSIVE EmitFrom(_, _)
\* markdown_content after the loop over cells i..
EmitFrom(cells, i) ==
    IF i > Len(cells) THEN <<>> ELSE EmitCell(cells, i) \o EmitFrom(cells, i + 1)

\* the file a request's conversion of its source, as it was at the start, makes
ConversionOf(r) ==
    IF r.name = "convert_notebook"
    THEN TextFile(MarkdownText(EmitFrom(SharedFiles[r.source_path].cells, 1)))
    ELSE NotebookFile(ParseMarkdown(UniversalNewlines(SharedFiles[r.source_path].text)).cells)

\* both callers made their call and both calls succeeded, on different sources
TwoSucceeded ==
    /\ \A c \in Callers : Len(responses[c]) = 1 /\ responses[c][1].status = "success"
    /\ requests[1][1].source_path # requests[2][1].source_path

EachOutputIsOwn ==
    \A c \in Callers : fs[responses[c][1].output_path] = ConversionOf(requests[c][1])

\* the path a request's output goes to: output_dir / stem with the new extension
Target(r) ==
    PathOf(r.output_dir, r.source_path.stem,
           IF r.name = "convert_notebook" THEN MD ELSE IPYNB)

\* the file a call's conversion of what it read from its source makes
ConversionRead(c) ==
    IF call[c].name = "convert_notebook"
    THEN TextFile(MarkdownText(EmitFrom(call[c].notebook, 1)))
    ELSE NotebookFile(ParseMarkdown(call[c].content).cells)

\* C10 as stated: for two calls on different source files, with any paths and
\* output directories and any interleaving, once both returned success the file
\* at each call's output_path holds the conversion of that call's own source
\* (here: of the source as the call read it).
C10_OutputsIndependent ==
    TwoSucceeded =>
        \A c \in Callers : fs[responses[c][1].output_path] = ConversionRead(c)

\* C10, amended: for two calls on different source files whose output paths
\* (output_dir / source stem with the new extension) differ and where neither
\* call's output path is the other call's source path, with any interleaving,
\* once both returned success the file at each call's output_path holds the
\* conversion of that call's source file.
C10_DistinctOutputsIndependent ==
    (/\ TwoSucceeded
     /\ Target(requests[1][1]) # Target(requests[2][1])
     /\ Target(requests[1][1]) # requests[2][1].source_path
     /\ Target(requests[2][1]) # requests[1][1].source_path)
    => EachOutputIsOwn

C10_Witness ==
    /\ TwoSucceeded
    /\ requests[1][1].name = requests[2][1].name
    /\ requests[1][1].output_dir = requests[2][1].output_dir
    /\ requests[1][1].source_path.stem # requests[2][1].source_path.stem
    /\ EachOutputIsOwn

====
